---- MODULE Spec2Model ----
(***************************************************************************)
(* Model of offline-pki (src/src/pki): the certificate commands            *)
(* `certificate root`, `certificate intermediate`, `certificate sign` and  *)
(* `certificate root sign`, the device selection of yubikey.py and the     *)
(* name-constraint parser.                                                 *)
(*                                                                         *)
(* A text string is a sequence of atoms.  An atom is one character or an   *)
(* opaque run of characters holding no ':' and no ','.  A distinguished    *)
(* name (x509.Name) is the sequence of its attributes in certificate       *)
(* order; its RFC 4514 string lists the attributes in the reverse order.   *)
(***************************************************************************)
EXTENDS Integers, Sequences, FiniteSets, TLC

(* ---------------------------- bounds ---------------------------------- *)

\* Physical YubiKeys that exist around the operator.
NumDevices == 2

\* Answers "yes" to "Copy root certificate to another YubiKey?" in one run.
MaxCopies == 1

VARIABLES
    cmd,             \* the command of this process: "none" before it starts
    pc,              \* position in the command
    error,           \* the error kind the command ended with, "" if none
    subject_name,    \* --subject-name
    permitted,       \* --permitted after the validate_constraints callback
    excluded,        \* --excluded after the validate_constraints callback
    management_key,  \* --management-key
    pin,             \* --pin
    days,            \* --days
    csr,             \* the CSR loaded from --csr-file
    connected,       \* the devices plugged in (list_all_devices)
    slotCert,        \* per device: certificate in SLOT.SIGNATURE
    slotKey,         \* per device: private key in SLOT.SIGNATURE
    conn,            \* the device of the open connection, 0 if none
    sessionNo,       \* connections opened so far in this command
    readCert,        \* local root / intermediate / root_cert (get_certificate)
    readSession,     \* the connection (by number) and device it was read on
    public_key,      \* local public_key
    private_key,     \* local private_key (certificate_root only)
    builder,         \* local cert / cert_builder: the unsigned certificate
    signed_cert,     \* local cert (root) / signed_cert
    confirmed,       \* the operator's answer to "Sign this certificate?"
    out_file,        \* what was written to --out-file
    copies,          \* "yes" answers to the copy prompt so far
    trace,           \* the steps this command has performed, in order
    option_values,   \* --permitted and --excluded as given to the callback
    raised,          \* what a validate_constraints callback raised, or None
    cstr,            \* parser check: the constraint string
    cres,            \* parser check: what validate_constraint gave for it
    all_devices,     \* yubikey reset: the serials list_all_devices gave
    nb,              \* yubikey reset: the place in all_devices of the one in hand
    device,          \* yubikey reset: local device, the handle in use
    retry,           \* yubikey reset: iterations the wait loop has left
    listings         \* yubikey reset: what each poll of the wait listed

vars == <<cmd, pc, error, subject_name, permitted, excluded, management_key,
          pin, days, csr, connected, slotCert, slotKey, conn, sessionNo, readCert,
          readSession, public_key, private_key, builder, signed_cert,
          confirmed, out_file, copies, trace, option_values,
          raised, cstr, cres, all_devices, nb, device, retry,
          listings>>

(* ---------------------------- sequences -------------------------------- *)

Reverse(s) == [i \in 1..Len(s) |-> s[Len(s) + 1 - i]]

Range(s) == {s[i] : i \in 1..Len(s)}

\* Position of the first atom of s equal to a, 0 if there is none.
IndexOf(s, a) ==
    IF \E i \in 1..Len(s) : s[i] = a
    THEN CHOOSE i \in 1..Len(s) : s[i] = a /\ \A j \in 1..(i - 1) : s[j] # a
    ELSE 0

(* ---------------------- distinguished names ---------------------------- *)

Attr(o, v) == [oid |-> o, value |-> v]

\* The "type=value" atoms of RFC 4514 strings and the attribute each denotes.
RdnAtoms == {"C=FR", "C=US", "O=Example Corp", "CN=Root CA",
             "CN=Intermediate CA", "CN=Leaf"}

AttrOf(a) ==
    CASE a = "C=FR"               -> Attr("C", "FR")
      [] a = "C=US"               -> Attr("C", "US")
      [] a = "O=Example Corp"     -> Attr("O", "Example Corp")
      [] a = "CN=Root CA"         -> Attr("CN", "Root CA")
      [] a = "CN=Intermediate CA" -> Attr("CN", "Intermediate CA")
      [] a = "CN=Leaf"            -> Attr("CN", "Leaf")

AtomOf(attr) == CHOOSE a \in RdnAtoms : AttrOf(a) = attr

\* What x509.Name.from_rfc4514_string raises ValueError for.
InvalidName == <<Attr("!", "ValueError")>>

\* rdn ("," rdn)*, or nothing at all.
WellFormedRfc4514(s) ==
    \/ s = <<>>
    \/ /\ Len(s) % 2 = 1
       /\ \A i \in 1..Len(s) :
            IF i % 2 = 1 THEN s[i] \in RdnAtoms ELSE s[i] = ","

\* x509.Name.from_rfc4514_string: the RDNs of the string, reversed.
FromRfc4514String(s) ==
    IF ~WellFormedRfc4514(s) THEN InvalidName
    ELSE Reverse([i \in 1..((Len(s) + 1) \div 2) |-> AttrOf(s[2 * i - 1])])

\* x509.Name.rfc4514_string: the attributes reversed, joined by ",".
Rfc4514String(name) ==
    [i \in 1..(IF name = <<>> THEN 0 ELSE 2 * Len(name) - 1) |->
        IF i % 2 = 1 THEN AtomOf(name[Len(name) + 1 - ((i + 1) \div 2)])
        ELSE ","]

\* [attr.oid for attr in subject]
Oids(name) == {name[i].oid : i \in 1..Len(name)}

\* A slip: the inherited attributes appended instead of prepended.
MergeSubject_RequestedFirst(issuer, subject) ==
    LET NotRequested(a) == a.oid \notin Oids(subject)
    IN  subject \o SelectSeq(issuer, NotRequested)

\* missing = [a for a in issuer if a.oid not in [attr.oid for attr in subject]]
\* subject = x509.Name(missing + [attr for attr in subject])
MergeSubject(issuer, subject) ==
    LET NotRequested(a) == a.oid \notin Oids(subject)
    IN  SelectSeq(issuer, NotRequested) \o subject

(* ------------------- validate_constraint (certificate.py) -------------- *)

\* str.lower on the letters the prefixes are written with.
LowerAtom(c) ==
    CASE c = "D" -> "d" [] c = "N" -> "n" [] c = "S" -> "s"
      [] c = "I" -> "i" [] c = "P" -> "p" [] c = "E" -> "e"
      [] c = "M" -> "m" [] c = "A" -> "a" [] c = "L" -> "l"
      [] OTHER -> c

Lower(s) == [i \in 1..Len(s) |-> LowerAtom(s[i])]

\* A slip: value.rsplit(":", 1), which splits at the last ":".
SplitLastColon(value) ==
    LET i == CHOOSE k \in 1..Len(value) :
                 value[k] = ":" /\ \A j \in (k + 1)..Len(value) : value[j] # ":"
    IN  <<SubSeq(value, 1, i - 1), SubSeq(value, i + 1, Len(value))>>

\* value.split(":", 1): the text before the first ":" and all the text after.
SplitFirstColon(value) ==
    LET i == IndexOf(value, ":")
    IN  <<SubSeq(value, 1, i - 1), SubSeq(value, i + 1, Len(value))>>

BadParameter(msg) == [kind |-> "BadParameter", message |-> msg]

\* The addresses ipaddress knows how to read, with their family's width.
IpAddresses == {<<"203.0.113.0">>, <<"203.0.113.5">>, <<":", ":", "1">>}

IpWidth(addr) == IF addr = <<":", ":", "1">> THEN 128 ELSE 32

\* Decimal prefix lengths as written after "/".
PrefixLengths == {"24", "32", "33", "128", "129"}

PrefixValue(a) ==
    CASE a = "24" -> 24 [] a = "32" -> 32 [] a = "33" -> 33
      [] a = "128" -> 128 [] a = "129" -> 129

\* strict=False: the host bits of the address are cleared.
MaskAddress(addr, len) ==
    IF addr = <<"203.0.113.5">> /\ len <= 24 THEN <<"203.0.113.0">> ELSE addr

\* ipaddress.ip_network(constraint, strict=False); "ValueError" when it raises.
IpNetwork(constraint) ==
    LET slash == IndexOf(constraint, "/")
        addr  == IF slash = 0 THEN constraint
                 ELSE SubSeq(constraint, 1, slash - 1)
        rest  == IF slash = 0 THEN <<>>
                 ELSE SubSeq(constraint, slash + 1, Len(constraint))
    IN  IF addr \notin IpAddresses THEN [kind |-> "ValueError"]
        ELSE IF slash = 0
        THEN [kind |-> "IPAddress", address |-> addr,
              prefixlen |-> IpWidth(addr)]
        ELSE IF Len(rest) # 1 \/ rest[1] \notin PrefixLengths
        THEN [kind |-> "ValueError"]
        ELSE IF PrefixValue(rest[1]) > IpWidth(addr)
        THEN [kind |-> "ValueError"]
        ELSE [kind |-> "IPAddress",
              address |-> MaskAddress(addr, PrefixValue(rest[1])),
              prefixlen |-> PrefixValue(rest[1])]

validate_constraint(value) ==
    IF value = <<>> \/ ":" \notin Range(value)
    THEN BadParameter("Invalid constraint, use prefix:value")
    ELSE
        LET prefix     == Lower(SplitFirstColon(value)[1])
            constraint == SplitFirstColon(value)[2]
        IN  CASE prefix = <<"d", "n", "s">> ->
                    [kind |-> "DNSName", value |-> constraint]
              [] prefix = <<"i", "p">> ->
                    IF IpNetwork(constraint).kind = "ValueError"
                    THEN BadParameter("Invalid IP address/network")
                    ELSE IpNetwork(constraint)
              [] prefix = <<"e", "m", "a", "i", "l">> ->
                    [kind |-> "RFC822Name", value |-> constraint]
              [] prefix = <<"d", "n">> ->
                    IF FromRfc4514String(constraint) = InvalidName
                    THEN BadParameter("Invalid DN")
                    ELSE [kind |-> "DirectoryName",
                          name |-> FromRfc4514String(constraint)]
              [] OTHER -> BadParameter("Unsupported constraint type")

\* typing.Optional[list[GeneralName]]: None, or a list.
None == [kind |-> "None"]

Some(list) == [kind |-> "list", list |-> list]

\* A slip: the `if not values: return None` left out.
validate_constraints_no_early_return(values) ==
    IF \E i \in 1..Len(values) :
           validate_constraint(values[i]).kind = "BadParameter"
    THEN validate_constraint(values[
            CHOOSE i \in 1..Len(values) :
                /\ validate_constraint(values[i]).kind = "BadParameter"
                /\ \A j \in 1..(i - 1) :
                     validate_constraint(values[j]).kind # "BadParameter"])
    ELSE Some([i \in 1..Len(values) |-> validate_constraint(values[i])])

\* validate_constraints: None for no values; the first failure is raised.
validate_constraints(values) ==
    IF values = <<>> THEN None
    ELSE IF \E i \in 1..Len(values) :
                validate_constraint(values[i]).kind = "BadParameter"
    THEN validate_constraint(values[
            CHOOSE i \in 1..Len(values) :
                /\ validate_constraint(values[i]).kind = "BadParameter"
                /\ \A j \in 1..(i - 1) :
                     validate_constraint(values[j]).kind # "BadParameter"])
    ELSE Some([i \in 1..Len(values) |-> validate_constraint(values[i])])


(* ----------------------- keys and certificates ------------------------- *)

Dev == 1..NumDevices

NoKey == <<"none", 0>>

\* The key a provisioned device holds before the command starts.
DeviceKey(d) == <<"device", d>>

\* ec.generate_private_key on the host (certificate_root).
HostKey == <<"host", 0>>

\* piv.generate_key in the signature slot of device d.
GeneratedKey(d) == <<"generated", d>>

\* The key pair of the requester of a CSR.
CsrKey == <<"csr", 0>>

NoCert == [kind |-> "none"]

Extension(oid, critical, value) ==
    [oid |-> oid, critical |-> critical, value |-> value]

\* x509.BasicConstraints(ca=True, path_length=None), critical=True
BasicConstraintsCA ==
    Extension("basicConstraints", TRUE, [ca |-> TRUE, path_length |-> None])

\* x509.KeyUsage(...), critical=True: the nine usage bits as written.
KeyUsageCA ==
    Extension("keyUsage", TRUE,
        [digital_signature |-> TRUE,  content_commitment |-> FALSE,
         key_encipherment  |-> FALSE, data_encipherment  |-> FALSE,
         key_agreement     |-> FALSE, key_cert_sign      |-> TRUE,
         crl_sign          |-> TRUE,  encipher_only      |-> FALSE,
         decipher_only     |-> FALSE])

\* Python truth of an Optional[list]: None and the empty list are false.
Truthy(x) == x.kind = "list" /\ x.list # <<>>

\* `x or None`
OrNone(x) == IF Truthy(x) THEN x ELSE None

\* A slip: the two keyword arguments given each other's value.
NameConstraintsExt_Swapped(perm, excl) ==
    Extension("nameConstraints", TRUE,
        [permitted_subtrees |-> OrNone(excl),
         excluded_subtrees  |-> OrNone(perm)])

\* x509.NameConstraints(permitted or None, excluded or None), critical=True
NameConstraintsExt(perm, excl) ==
    Extension("nameConstraints", TRUE,
        [permitted_subtrees |-> OrNone(perm),
         excluded_subtrees  |-> OrNone(excl)])

\* x509.random_serial_number(): some number the caller does not choose.
RandomSerialNumbers == {1, 7}

\* .not_valid_before(datetime.now(timezone.utc))
\* .not_valid_after(datetime.now(timezone.utc) + timedelta(days=days))
\* Times count from the first reading of the clock; the second reading is
\* `advance` ticks later.
Validity(d, advance) ==
    [not_valid_before |-> [day |-> 0, tick |-> 0],
     not_valid_after  |-> [day |-> d, tick |-> advance]]

\* How far the clock may move between the two readings.
ClockAdvances == {0, 1}

CertificateBuilder(subject, issuer, key, serial, validity, extensions) ==
    [kind |-> "builder", subject |-> subject, issuer |-> issuer,
     public_key |-> key, serial_number |-> serial,
     not_valid_before |-> validity.not_valid_before,
     not_valid_after |-> validity.not_valid_after,
     extensions |-> extensions]

\* certificate_root: the builder of lines 111-146.
RootBuilder(subject, key, validity, perm, excl) ==
    CertificateBuilder(subject, subject, key, 1, validity,
        <<BasicConstraintsCA, KeyUsageCA>> \o
        (IF Truthy(perm) \/ Truthy(excl)
         THEN <<NameConstraintsExt(perm, excl)>> ELSE <<>>))

\* certificate_intermediate: the builder of lines 210-247.
IntermediateBuilder(root, requested, key, serial, validity) ==
    CertificateBuilder(MergeSubject(root.subject, requested), root.subject,
        key, serial, validity, <<BasicConstraintsCA, KeyUsageCA>>)

\* A slip: .issuer_name(subject), as in certificate_root.
LeafBuilder_SubjectAsIssuer(subject, signer, request, serial, validity) ==
    CertificateBuilder(subject, subject, request.public_key, serial,
        validity,
        [i \in 1..Len(request.extensions) |->
            Extension(request.extensions[i].oid,
                      request.extensions[i].critical,
                      request.extensions[i].value)])

\* certificate_sign / root_sign: lines 338-361 and 445-461.
LeafBuilder(subject, signer, request, serial, validity) ==
    CertificateBuilder(subject, signer.subject, request.public_key, serial,
        validity,
        [i \in 1..Len(request.extensions) |->
            Extension(request.extensions[i].oid,
                      request.extensions[i].critical,
                      request.extensions[i].value)])

\* The certificate a builder gives once signed with private key `key`.
Signed(b, key) ==
    [kind |-> "cert", subject |-> b.subject, issuer |-> b.issuer,
     public_key |-> b.public_key, serial_number |-> b.serial_number,
     not_valid_before |-> b.not_valid_before,
     not_valid_after |-> b.not_valid_after,
     extensions |-> b.extensions, signed_by |-> key]

(* ------------------------------ guards --------------------------------- *)

SelfIssued(cert) ==
    Rfc4514String(cert.issuer) = Rfc4514String(cert.subject)

\* A slip: the root test pasted into certificate_sign unchanged.
RoleGuard_RootTestEverywhere(c, cert) == SelfIssued(cert)

\* The issuer/subject test each command applies to the certificate it read.
RoleGuard(c, cert) ==
    IF c = "sign" THEN ~SelfIssued(cert) ELSE SelfIssued(cert)

\* A slip: the RSA branch entered but its public_key.verify call left out.
CsrVerifier_RsaUnverified(request) ==
    IF request.key_type = "rsa" /\ request.signature_hash_algorithm # "none"
    THEN "ok"
    ELSE IF request.key_type = "ec"
    THEN IF request.signature_hash_algorithm = "none"
         THEN "MissingHashAlgorithm"
         ELSE IF request.signature_valid THEN "ok"
              ELSE "CsrSignatureInvalid"
    ELSE "UnsupportedKeyAlgorithm"

\* The CSR check of certificate_sign and root_sign; "ok" when it passes.
CsrVerifier(request) ==
    IF request.key_type = "rsa" /\ request.signature_hash_algorithm # "none"
    THEN IF request.signature_valid THEN "ok" ELSE "CsrSignatureInvalid"
    ELSE IF request.key_type = "ec"
    THEN IF request.signature_hash_algorithm = "none"
         THEN "MissingHashAlgorithm"
         ELSE IF request.signature_valid THEN "ok"
              ELSE "CsrSignatureInvalid"
    ELSE "UnsupportedKeyAlgorithm"

\* A slip: the first listed device is returned whatever the length.
yubikey_one_first(yk, devices) ==
    IF Cardinality(devices) >= 1
    THEN [kind |-> "device", device |-> CHOOSE d \in devices : TRUE]
    ELSE [kind |-> "NoDeviceFound", device |-> 0]

\* A reading of the label as a filter: only the listed devices that do not
\* hold a certificate of the other role are counted.
yubikey_one_matching(yk, devices) ==
    LET other(d) == /\ slotCert[d] # NoCert
                    /\ SelfIssued(slotCert[d]) = (yk = "Intermediate")
        matching == {d \in devices : ~other(d)}
    IN  IF Cardinality(matching) = 1
        THEN [kind |-> "device", device |-> CHOOSE d \in matching : TRUE]
        ELSE IF Cardinality(matching) = 0
        THEN [kind |-> "NoDeviceFound", device |-> 0]
        ELSE [kind |-> "AmbiguousDevice", device |-> 0]

\* yubikey_one: the device when exactly one is listed.
yubikey_one(yk, devices) ==
    IF Cardinality(devices) = 1
    THEN [kind |-> "device", device |-> CHOOSE d \in devices : TRUE]
    ELSE IF Cardinality(devices) = 0
    THEN [kind |-> "NoDeviceFound", device |-> 0]
    ELSE [kind |-> "AmbiguousDevice", device |-> 0]

\* A slip: abort=True left out, the answer is ignored.
confirm_without_abort(answer) == "ok"

\* click.confirm(..., abort=True)
confirm_or_abort(answer) == IF answer THEN "ok" ELSE "Aborted"


(* ------------------------------ inputs --------------------------------- *)

\* --subject-name texts: "", single RDNs, longer names and a malformed one.
SubjectNameTexts ==
    {<<>>, <<"CN=Root CA">>, <<"CN=Leaf">>,
     <<"CN=Root CA", ",", "O=Example Corp", ",", "C=FR">>,
     <<"CN=Leaf", ",", "C=US">>, <<"=bad">>}

Given(text) == [given |-> TRUE, text |-> text]

\* The option left out: click passes None.
NotGiven == [given |-> FALSE, text |-> <<>>]

\* `not subject_name`: None and "" are both false.
Falsy(option) == ~option.given \/ option.text = <<>>

\* The values of the repeated options --permitted and --excluded.
PermittedOptionLists ==
    {<<>>,
     <<<<"d", "n", "s", ":", "example.com">>>>,
     <<<<"d", "n", "s", ":", "example.com">>,
       <<"i", "p", ":", "203.0.113.0", "/", "24">>>>,
     <<<<"b", "o", "g", "u", "s">>>>,
     <<<<"b", "o", "g", "u", "s">>, <<"f", "o", "o", ":", "bar">>>>,
     <<<<"d", "n", "s", ":", "example.com">>, <<"f", "o", "o", ":", "bar">>>>}

ExcludedOptionLists ==
    {<<>>,
     <<<<"i", "p", ":", "203.0.113.0", "/", "24">>>>,
     <<<<"b", "o", "g", "u", "s">>>>}

\* --days values; click.IntRange(min=1) refuses the first.
DayInputs == {0, 1, 7300}

\* The credentials of the devices, and wrong ones.
DevicePin == "123456"

DeviceManagementKey == "device management key"

Pins == {DevicePin, "000000"}

ManagementKeys == {DeviceManagementKey, "another management key"}

CsrExtensionLists ==
    {<<>>,
     <<Extension("subjectAltName", FALSE, [dns |-> "leaf.example.com"]),
       Extension("basicConstraints", TRUE, [ca |-> FALSE, path_length |-> None])>>}

Csrs ==
    [subject : {<<Attr("CN", "Leaf")>>, <<Attr("C", "US"), Attr("CN", "Leaf")>>},
     key_type : {"rsa", "ec", "ed25519"},
     public_key : {CsrKey},
     signature_hash_algorithm : {"none", "sha256"},
     signature_valid : BOOLEAN,
     extensions : CsrExtensionLists]

NoCsr == [kind |-> "none"]

\* What a device may hold in its signature slot before the command starts.
ProvisionedRoot(d) ==
    Signed(RootBuilder(<<Attr("C", "FR"), Attr("O", "Example Corp"),
                         Attr("CN", "Root CA")>>, DeviceKey(d),
                       Validity(7300, 0), None, None),
           DeviceKey(d))

ProvisionedIntermediate(d) ==
    Signed(IntermediateBuilder(ProvisionedRoot(d),
               <<Attr("CN", "Intermediate CA")>>, DeviceKey(d), 7,
               Validity(1460, 0)),
           DeviceKey(0))

\* What device d holds before the command: nothing, a root, an intermediate.
SlotContent(d, k) ==
    CASE k = 1 -> NoCert
      [] k = 2 -> ProvisionedRoot(d)
      [] k = 3 -> ProvisionedIntermediate(d)

(* ------------------------------- state --------------------------------- *)

inputs == <<subject_name, permitted, excluded, management_key, pin, days,
            csr>>

slots == <<slotCert, slotKey>>

locals == <<readCert, readSession, public_key, private_key, builder,
            signed_cert>>

\* yubikey reset
reset == <<all_devices, nb, device, retry, listings>>

\* What no certificate command touches: the option callbacks, the parser
\* check and yubikey reset.
apart == <<option_values, raised, cstr, cres, reset>>

\* No --permitted and no --excluded given.
NoValues == [permitted |-> <<>>, excluded |-> <<>>]

NoSession == [session |-> 0, dev |-> 0]

\* A handle on the device of serial s, as the listing-th listing of
\* the wait gave it; 0 for the listing that starts the command.
Handle(s, listing) == [serial |-> s, listing |-> listing]

NoHandle == Handle(0, 0)

\* The variables of yubikey reset when that command is not the one run.
NotResetting ==
    /\ all_devices = <<>>
    /\ nb = 0
    /\ device = NoHandle
    /\ retry = 0
    /\ listings = <<>>

\* Everything but the devices and the parser check, before a command runs.
Idle ==
    /\ cmd = "none"
    /\ error = ""
    /\ subject_name = NotGiven
    /\ permitted = None
    /\ excluded = None
    /\ management_key = ""
    /\ pin = ""
    /\ days = 0
    /\ csr = NoCsr
    /\ connected = {}
    /\ conn = 0
    /\ sessionNo = 0
    /\ readCert = NoCert
    /\ readSession = NoSession
    /\ public_key = NoKey
    /\ private_key = NoKey
    /\ builder = NoCert
    /\ signed_cert = NoCert
    /\ confirmed = FALSE
    /\ out_file = <<>>
    /\ copies = 0
    /\ trace = <<>>

Init ==
    /\ Idle
    /\ pc = "idle"
    \* The devices are interchangeable: one arrangement of each choice of
    \* contents is enough.
    /\ \E k \in [Dev -> 1..3] :
         /\ \A d \in Dev : d + 1 \in Dev => k[d] <= k[d + 1]
         /\ slotCert = [d \in Dev |-> SlotContent(d, k[d])]
    /\ slotKey = [d \in Dev |->
                    IF slotCert[d] = NoCert THEN NoKey ELSE DeviceKey(d)]
    /\ option_values = NoValues
    /\ raised = None
    /\ cstr = <<>>
    /\ cres = None
    /\ NotResetting

(* ---------------------------- control flow ----------------------------- *)

\* A slip: verify_pin moved to the top of the `with` block of the two
\* CSR-signing commands.
StepAfter_PinFirst(c, p) ==
    IF c = "root" THEN
        CASE p = "build"           -> "select"
          [] p = "select"          -> "authenticate"
          [] p = "authenticate"    -> "put_certificate"
          [] p = "put_certificate" -> "put_key"
          [] p = "put_key"         -> "copy_prompt"
    ELSE IF c = "intermediate" THEN
        CASE p = "select1"         -> "authenticate1"
          [] p = "authenticate1"   -> "generate_key"
          [] p = "generate_key"    -> "select2"
          [] p = "select2"         -> "get_certificate"
          [] p = "get_certificate" -> "build"
          [] p = "build"           -> "verify_pin"
          [] p = "verify_pin"      -> "sign"
          [] p = "sign"            -> "select3"
          [] p = "select3"         -> "authenticate3"
          [] p = "authenticate3"   -> "put_certificate"
          [] p = "put_certificate" -> "done"
    ELSE
        CASE p = "verify_csr"      -> "select"
          [] p = "select"          -> "verify_pin"
          [] p = "verify_pin"      -> "get_certificate"
          [] p = "get_certificate" -> "build"
          [] p = "build"           -> "confirm"
          [] p = "confirm"         -> "sign"
          [] p = "sign"            -> "write"
          [] p = "write"           -> "done"

\* A slip: verify_pin written above click.confirm in the two CSR-signing
\* commands.
StepAfter_PinBeforeConfirm(c, p) ==
    IF c = "root" THEN
        CASE p = "build"           -> "select"
          [] p = "select"          -> "authenticate"
          [] p = "authenticate"    -> "put_certificate"
          [] p = "put_certificate" -> "put_key"
          [] p = "put_key"         -> "copy_prompt"
    ELSE IF c = "intermediate" THEN
        CASE p = "select1"         -> "authenticate1"
          [] p = "authenticate1"   -> "generate_key"
          [] p = "generate_key"    -> "select2"
          [] p = "select2"         -> "get_certificate"
          [] p = "get_certificate" -> "build"
          [] p = "build"           -> "verify_pin"
          [] p = "verify_pin"      -> "sign"
          [] p = "sign"            -> "select3"
          [] p = "select3"         -> "authenticate3"
          [] p = "authenticate3"   -> "put_certificate"
          [] p = "put_certificate" -> "done"
    ELSE
        CASE p = "verify_csr"      -> "select"
          [] p = "select"          -> "get_certificate"
          [] p = "get_certificate" -> "build"
          [] p = "build"           -> "verify_pin"
          [] p = "verify_pin"      -> "confirm"
          [] p = "confirm"         -> "sign"
          [] p = "sign"            -> "write"
          [] p = "write"           -> "done"

\* The statement that follows statement p of command c when p succeeds.
StepAfter(c, p) ==
    IF c = "root" THEN
        CASE p = "build"           -> "select"
          [] p = "select"          -> "authenticate"
          [] p = "authenticate"    -> "put_certificate"
          [] p = "put_certificate" -> "put_key"
          [] p = "put_key"         -> "copy_prompt"
    ELSE IF c = "intermediate" THEN
        CASE p = "select1"         -> "authenticate1"
          [] p = "authenticate1"   -> "generate_key"
          [] p = "generate_key"    -> "select2"
          [] p = "select2"         -> "get_certificate"
          [] p = "get_certificate" -> "build"
          [] p = "build"           -> "verify_pin"
          [] p = "verify_pin"      -> "sign"
          [] p = "sign"            -> "select3"
          [] p = "select3"         -> "authenticate3"
          [] p = "authenticate3"   -> "put_certificate"
          [] p = "put_certificate" -> "done"
    ELSE
        CASE p = "verify_csr"      -> "select"
          [] p = "select"          -> "get_certificate"
          [] p = "get_certificate" -> "build"
          [] p = "build"           -> "confirm"
          [] p = "confirm"         -> "verify_pin"
          [] p = "verify_pin"      -> "sign"
          [] p = "sign"            -> "write"
          [] p = "write"           -> "done"

\* One entry of the record of what the command did; a SelectDevice entry
\* carries the number of the connection it opens or fails to open, and the
\* label it was called with.
Ev(step, d, ok) == [step |-> step, dev |-> d, session |-> sessionNo, ok |-> ok]

\* The statement succeeded; the connection stays as it is.
Continue(events) ==
    /\ pc' = StepAfter(cmd, pc)
    /\ trace' = trace \o events
    /\ UNCHANGED <<error, conn>>

\* A slip: the statement written after a connection opened outside any
\* `with` block, so that nothing closes the connection.
ContinueLeavingOpen(events) ==
    /\ pc' = StepAfter(cmd, pc)
    /\ trace' = trace \o events
    /\ UNCHANGED <<error, conn>>

\* The statement succeeded and was the last of its `with` block.
ContinueAndClose(events) ==
    /\ pc' = StepAfter(cmd, pc)
    /\ trace' = trace \o events
    /\ conn' = 0
    /\ UNCHANGED error

\* The statement raised: the `with` block, if any, closes the connection and
\* main() logs the exception and exits.
Fail(kind, events) ==
    /\ pc' = "failed"
    /\ error' = kind
    /\ trace' = trace \o events
    /\ conn' = 0

\* yubikey_one(yk).open_connection(...): the operator plugs what they plug
\* at the pause, then the devices are listed.
SelectDevice(yk) ==
    /\ \E plugged \in SUBSET Dev :
         /\ connected' = plugged
         /\ LET one == yubikey_one(yk, plugged)
            IN  IF one.kind = "device"
                THEN /\ pc' = StepAfter(cmd, pc)
                     /\ conn' = one.device
                     /\ sessionNo' = sessionNo + 1
                     /\ trace' = trace \o
                          <<[step |-> "SelectDevice", dev |-> one.device,
                             session |-> sessionNo + 1, ok |-> TRUE,
                             yk |-> yk]>>
                     /\ UNCHANGED error
                ELSE /\ Fail(one.kind,
                          <<[step |-> "SelectDevice", dev |-> 0,
                             session |-> sessionNo + 1, ok |-> FALSE,
                             yk |-> yk]>>)
                     /\ UNCHANGED sessionNo
    /\ UNCHANGED <<cmd, inputs, slots, locals, confirmed, out_file, copies,
                   apart>>

\* piv.authenticate(management_key)
Authenticate ==
    /\ IF management_key = DeviceManagementKey
       THEN Continue(<<Ev("Authenticate", conn, TRUE)>>)
       ELSE Fail("AuthError", <<Ev("Authenticate", conn, FALSE)>>)
    /\ UNCHANGED <<cmd, inputs, connected, slots, sessionNo, locals,
                   confirmed, out_file, copies, apart>>

\* A slip: a wrong PIN caught and verify_pin tried again.
VerifyPinAgain ==
    /\ IF pin = DevicePin
       THEN Continue(<<Ev("VerifyPin", conn, TRUE)>>)
       ELSE /\ Len(trace) < 12
            /\ trace' = trace \o <<Ev("VerifyPin", conn, FALSE)>>
            /\ UNCHANGED <<pc, error, conn>>
    /\ UNCHANGED <<cmd, inputs, connected, slots, sessionNo, locals,
                   confirmed, out_file, copies, apart>>

\* piv.verify_pin(pin)
VerifyPin ==
    /\ IF pin = DevicePin
       THEN Continue(<<Ev("VerifyPin", conn, TRUE)>>)
       ELSE Fail("AuthError", <<Ev("VerifyPin", conn, FALSE)>>)
    /\ UNCHANGED <<cmd, inputs, connected, slots, sessionNo, locals,
                   confirmed, out_file, copies, apart>>

\* piv.get_certificate(SLOT.SIGNATURE) and the issuer/subject test on it.
GetCertificate ==
    /\ IF slotCert[conn] = NoCert
       THEN /\ Fail("DeviceError", <<Ev("GetCertificate", conn, FALSE)>>)
            /\ UNCHANGED <<readCert, readSession>>
       ELSE /\ readCert' = slotCert[conn]
            /\ readSession' = [session |-> sessionNo, dev |-> conn]
            /\ IF RoleGuard(cmd, slotCert[conn])
               THEN Continue(<<Ev("GetCertificate", conn, TRUE),
                               Ev("VerifyRole", conn, TRUE)>>)
               ELSE Fail("UnexpectedDeviceRole",
                         <<Ev("GetCertificate", conn, TRUE),
                           Ev("VerifyRole", conn, FALSE)>>)
    /\ UNCHANGED <<cmd, inputs, connected, slots, sessionNo, public_key,
                   private_key, builder, signed_cert, confirmed, out_file,
                   copies, apart>>

\* A slip: cert_builder.sign(private_key, ...) as in certificate_root, with a
\* key held by the command, in place of the device's signature.
SignWithLocalKey(close) ==
    /\ signed_cert' = Signed(builder, private_key)
    /\ IF close THEN ContinueAndClose(<<Ev("Sign", conn, TRUE)>>)
       ELSE Continue(<<Ev("Sign", conn, TRUE)>>)
    /\ UNCHANGED <<cmd, inputs, connected, slots, sessionNo, readCert,
                   readSession, public_key, private_key, builder, confirmed,
                   out_file, copies, apart>>

\* sign_certificate_builder(piv, slot=SLOT.SIGNATURE, ...): the device signs
\* with the key of its signature slot.  `close` says whether the statement
\* ends its `with` block.
SignOnDevice(close) ==
    /\ IF slotKey[conn] = NoKey
       THEN /\ Fail("DeviceError", <<Ev("Sign", conn, FALSE)>>)
            /\ UNCHANGED signed_cert
       ELSE /\ signed_cert' = Signed(builder, slotKey[conn])
            /\ IF close THEN ContinueAndClose(<<Ev("Sign", conn, TRUE)>>)
               ELSE Continue(<<Ev("Sign", conn, TRUE)>>)
    /\ UNCHANGED <<cmd, inputs, connected, slots, sessionNo, readCert,
                   readSession, public_key, private_key, builder, confirmed,
                   out_file, copies, apart>>


(* ------------------------- certificate root ---------------------------- *)

\* click.IntRange(min=1)
IntRangeMin1(d) == d >= 1

\* The command line of `certificate root`: the option callbacks run first.
StartRoot ==
    /\ pc = "idle"
    /\ cmd' = "root"
    /\ \E text \in SubjectNameTexts, mk \in ManagementKeys, d \in DayInputs,
          p \in PermittedOptionLists, e \in ExcludedOptionLists :
         /\ subject_name' = Given(text)
         /\ management_key' = mk
         /\ days' = d
         /\ option_values' = [permitted |-> p, excluded |-> e]
         /\ IF "BadParameter" \in {validate_constraints(p).kind,
                                   validate_constraints(e).kind}
            THEN /\ pc' = "failed"
                 /\ error' = "InvalidConstraint"
                 \* The callbacks run in the order of the command line.
                 /\ \E r \in {validate_constraints(p),
                               validate_constraints(e)} :
                      r.kind = "BadParameter" /\ raised' = r
                 /\ UNCHANGED <<permitted, excluded>>
            ELSE IF ~IntRangeMin1(d)
            THEN /\ pc' = "failed"
                 /\ error' = "BadParameter"
                 /\ UNCHANGED <<permitted, excluded, raised>>
            ELSE /\ pc' = "build"
                 /\ permitted' = validate_constraints(p)
                 /\ excluded' = validate_constraints(e)
                 /\ UNCHANGED <<error, raised>>
    /\ UNCHANGED <<pin, csr, connected, slots, conn, sessionNo, locals,
                   confirmed, out_file, copies, trace, cstr, cres, reset>>

\* Lines 107-151: key pair on the host, certificate built and self-signed.
RootBuild ==
    /\ cmd = "root" /\ pc = "build"
    /\ private_key' = HostKey
    /\ LET subject == FromRfc4514String(subject_name.text)
       IN  IF subject = InvalidName
           THEN /\ Fail("InvalidSubject", <<>>)
                /\ UNCHANGED <<builder, signed_cert, public_key>>
           ELSE /\ public_key' = HostKey
                /\ \E advance \in ClockAdvances :
                     builder' = RootBuilder(subject, HostKey,
                                            Validity(days, advance),
                                            permitted, excluded)
                /\ signed_cert' = Signed(builder', HostKey)
                /\ Continue(<<Ev("BuildCertificate", 0, TRUE),
                              Ev("SignOnHost", 0, TRUE)>>)
    /\ UNCHANGED <<cmd, inputs, connected, slots, sessionNo, readCert,
                   readSession, confirmed, out_file, copies, apart>>

\* Line 153
RootSelect == cmd = "root" /\ pc = "select" /\ SelectDevice("Root X")

\* Line 155
RootAuthenticate == cmd = "root" /\ pc = "authenticate" /\ Authenticate

\* Line 156
RootPutCertificate ==
    /\ cmd = "root" /\ pc = "put_certificate"
    /\ slotCert' = [slotCert EXCEPT ![conn] = signed_cert]
    /\ Continue(<<Ev("PutCertificate", conn, TRUE)>>)
    /\ UNCHANGED <<cmd, inputs, connected, slotKey, sessionNo, locals,
                   confirmed, out_file, copies, apart>>

\* A slip: piv.generate_key in place of piv.put_key, each device making a
\* key of its own.
RootGenerateKeyInDevice ==
    /\ cmd = "root" /\ pc = "put_key"
    /\ slotKey' = [slotKey EXCEPT ![conn] = GeneratedKey(conn)]
    /\ ContinueAndClose(<<Ev("PutKey", conn, TRUE)>>)
    /\ UNCHANGED <<cmd, inputs, connected, slotCert, sessionNo, locals,
                   confirmed, out_file, copies, apart>>

\* Lines 157-162, the end of the `with` block.
RootPutKey ==
    /\ cmd = "root" /\ pc = "put_key"
    /\ slotKey' = [slotKey EXCEPT ![conn] = private_key]
    /\ ContinueAndClose(<<Ev("PutKey", conn, TRUE)>>)
    /\ UNCHANGED <<cmd, inputs, connected, slotCert, sessionNo, locals,
                   confirmed, out_file, copies, apart>>

\* A slip: `while True:` written above the key generation, so that a "yes"
\* builds a new key and certificate for the next device.
RootCopyPromptRebuild ==
    /\ cmd = "root" /\ pc = "copy_prompt"
    /\ \E answer \in BOOLEAN :
         IF answer
         THEN /\ copies < MaxCopies
              /\ copies' = copies + 1
              /\ pc' = "build"
         ELSE /\ pc' = "done"
              /\ UNCHANGED copies
    /\ UNCHANGED <<cmd, error, inputs, connected, slots, conn, sessionNo,
                   locals, confirmed, out_file, trace, apart>>

\* Lines 163-164: "Copy root certificate to another YubiKey?"
RootCopyPrompt ==
    /\ cmd = "root" /\ pc = "copy_prompt"
    /\ \E answer \in BOOLEAN :
         IF answer
         THEN /\ copies < MaxCopies
              /\ copies' = copies + 1
              /\ pc' = "select"
         ELSE /\ pc' = "done"
              /\ UNCHANGED copies
    /\ UNCHANGED <<cmd, error, inputs, connected, slots, conn, sessionNo,
                   locals, confirmed, out_file, trace, apart>>

(* ---------------------- certificate intermediate ----------------------- *)

StartIntermediate ==
    /\ pc = "idle"
    /\ cmd' = "intermediate"
    /\ \E text \in SubjectNameTexts, mk \in ManagementKeys, p \in Pins,
          d \in DayInputs :
         /\ subject_name' = Given(text)
         /\ management_key' = mk
         /\ pin' = p
         /\ days' = d
         /\ IF IntRangeMin1(d)
            THEN pc' = "select1" /\ UNCHANGED error
            ELSE pc' = "failed" /\ error' = "BadParameter"
    /\ UNCHANGED <<permitted, excluded, csr, connected, slots, conn,
                   sessionNo, locals, confirmed, out_file, copies, trace,
                   apart>>

\* Line 192
IntermediateSelect1 ==
    cmd = "intermediate" /\ pc = "select1" /\ SelectDevice("Intermediate")

\* Line 197
IntermediateAuthenticate1 ==
    cmd = "intermediate" /\ pc = "authenticate1" /\ Authenticate

\* A slip: the key pair made on the host, as certificate_root does, the
\* device being written only at the end.
IntermediateGenerateKeyOnHost ==
    /\ cmd = "intermediate" /\ pc = "generate_key"
    /\ private_key' = HostKey
    /\ public_key' = HostKey
    /\ ContinueAndClose(<<Ev("GenerateKey", conn, TRUE)>>)
    /\ UNCHANGED <<cmd, inputs, connected, slots, sessionNo, readCert,
                   readSession, builder, signed_cert, confirmed,
                   out_file, copies, apart>>

\* Lines 198-203, the end of the first `with` block.
IntermediateGenerateKey ==
    /\ cmd = "intermediate" /\ pc = "generate_key"
    /\ slotKey' = [slotKey EXCEPT ![conn] = GeneratedKey(conn)]
    /\ public_key' = GeneratedKey(conn)
    /\ ContinueAndClose(<<Ev("GenerateKey", conn, TRUE)>>)
    /\ UNCHANGED <<cmd, inputs, connected, slotCert, sessionNo, readCert,
                   readSession, private_key, builder, signed_cert, confirmed,
                   out_file, copies, apart>>

\* Line 204
IntermediateSelect2 ==
    cmd = "intermediate" /\ pc = "select2" /\ SelectDevice("Root X")

\* Lines 207-209
IntermediateGetCertificate ==
    cmd = "intermediate" /\ pc = "get_certificate" /\ GetCertificate

\* Lines 210-247
IntermediateBuild ==
    /\ cmd = "intermediate" /\ pc = "build"
    /\ LET requested == FromRfc4514String(subject_name.text)
       IN  IF requested = InvalidName
           THEN /\ Fail("InvalidSubject", <<>>)
                /\ UNCHANGED builder
           ELSE /\ \E serial \in RandomSerialNumbers,
                      advance \in ClockAdvances :
                     builder' = IntermediateBuilder(readCert, requested,
                                    public_key, serial,
                                    Validity(days, advance))
                /\ Continue(<<Ev("BuildCertificate", conn, TRUE)>>)
    /\ UNCHANGED <<cmd, inputs, connected, slots, sessionNo, readCert,
                   readSession, public_key, private_key, signed_cert,
                   confirmed, out_file, copies, apart>>

\* Line 248
IntermediateVerifyPin ==
    cmd = "intermediate" /\ pc = "verify_pin" /\ VerifyPin

\* Lines 249-255, the end of the second `with` block.
IntermediateSign ==
    cmd = "intermediate" /\ pc = "sign" /\ SignOnDevice(TRUE)

\* Line 256
IntermediateSelect3 ==
    cmd = "intermediate" /\ pc = "select3" /\ SelectDevice("Intermediate")

\* Line 261
IntermediateAuthenticate3 ==
    cmd = "intermediate" /\ pc = "authenticate3" /\ Authenticate

\* Line 262, the end of the third `with` block.
IntermediatePutCertificate ==
    /\ cmd = "intermediate" /\ pc = "put_certificate"
    /\ slotCert' = [slotCert EXCEPT ![conn] = signed_cert]
    /\ ContinueAndClose(<<Ev("PutCertificate", conn, TRUE)>>)
    /\ UNCHANGED <<cmd, inputs, connected, slotKey, sessionNo, locals,
                   confirmed, out_file, copies, apart>>


(* --------------- certificate sign / certificate root sign -------------- *)

\* `certificate sign`: --subject-name may be left out.
StartSign ==
    /\ pc = "idle"
    /\ cmd' = "sign"
    /\ \E option \in {NotGiven} \cup {Given(t) : t \in SubjectNameTexts},
          p \in Pins, request \in Csrs, d \in DayInputs :
         /\ subject_name' = option
         /\ pin' = p
         /\ csr' = request
         /\ days' = d
         /\ IF IntRangeMin1(d)
            THEN pc' = "verify_csr" /\ UNCHANGED error
            ELSE pc' = "failed" /\ error' = "BadParameter"
    /\ UNCHANGED <<permitted, excluded, management_key, connected,
                   slots, conn, sessionNo, locals, confirmed, out_file,
                   copies, trace, apart>>

\* `certificate root sign` has no --subject-name.
StartRootSign ==
    /\ pc = "idle"
    /\ cmd' = "root_sign"
    /\ \E p \in Pins, request \in Csrs, d \in DayInputs :
         /\ pin' = p
         /\ csr' = request
         /\ days' = d
         /\ IF IntRangeMin1(d)
            THEN pc' = "verify_csr" /\ UNCHANGED error
            ELSE pc' = "failed" /\ error' = "BadParameter"
    /\ UNCHANGED <<subject_name, permitted, excluded, management_key,
                   connected, slots, conn, sessionNo, locals, confirmed,
                   out_file, copies, trace, apart>>

\* Lines 300-322 and 411-435
VerifyCsr ==
    /\ public_key' = csr.public_key
    /\ IF CsrVerifier(csr) = "ok"
       THEN Continue(<<Ev("VerifyCsr", 0, TRUE)>>)
       ELSE Fail(CsrVerifier(csr), <<Ev("VerifyCsr", 0, FALSE)>>)
    /\ UNCHANGED <<cmd, inputs, connected, slots, sessionNo, readCert,
                   readSession, private_key, builder, signed_cert, confirmed,
                   out_file, copies, apart>>

SignVerifyCsr == cmd = "sign" /\ pc = "verify_csr" /\ VerifyCsr

RootSignVerifyCsr == cmd = "root_sign" /\ pc = "verify_csr" /\ VerifyCsr

\* Line 324
SignSelect == cmd = "sign" /\ pc = "select" /\ SelectDevice("Intermediate")

\* Line 437
RootSignSelect == cmd = "root_sign" /\ pc = "select" /\ SelectDevice("Root X")

\* Lines 328-335
SignGetCertificate == cmd = "sign" /\ pc = "get_certificate" /\ GetCertificate

\* Lines 439-442
RootSignGetCertificate ==
    cmd = "root_sign" /\ pc = "get_certificate" /\ GetCertificate

\* A slip: the merge applied to the subject of the CSR too.
SignSubjectAlwaysMerged(option, request, signer) ==
    IF Falsy(option) THEN MergeSubject(signer.subject, request.subject)
    ELSE IF FromRfc4514String(option.text) = InvalidName THEN InvalidName
    ELSE MergeSubject(signer.subject, FromRfc4514String(option.text))

\* Lines 339-348: the subject of a certificate of `certificate sign`.
SignSubject(option, request, signer) ==
    IF Falsy(option) THEN request.subject
    ELSE IF FromRfc4514String(option.text) = InvalidName THEN InvalidName
    ELSE MergeSubject(signer.subject, FromRfc4514String(option.text))

\* Lines 337-361
SignBuild ==
    /\ cmd = "sign" /\ pc = "build"
    /\ IF SignSubject(subject_name, csr, readCert) = InvalidName
       THEN /\ Fail("InvalidSubject", <<>>)
            /\ UNCHANGED builder
       ELSE /\ \E serial \in RandomSerialNumbers,
                  advance \in ClockAdvances :
                 builder' = LeafBuilder(SignSubject(subject_name, csr, readCert),
                                readCert, csr, serial, Validity(days, advance))
            /\ Continue(<<Ev("BuildCertificate", conn, TRUE)>>)
    /\ UNCHANGED <<cmd, inputs, connected, slots, sessionNo, readCert,
                   readSession, public_key, private_key, signed_cert,
                   confirmed, out_file, copies, apart>>

\* Lines 444-461
RootSignBuild ==
    /\ cmd = "root_sign" /\ pc = "build"
    /\ \E serial \in RandomSerialNumbers, advance \in ClockAdvances :
         builder' = LeafBuilder(csr.subject, readCert, csr, serial,
                                Validity(days, advance))
    /\ Continue(<<Ev("BuildCertificate", conn, TRUE)>>)
    /\ UNCHANGED <<cmd, inputs, connected, slots, sessionNo, readCert,
                   readSession, public_key, private_key, signed_cert,
                   confirmed, out_file, copies, apart>>

\* click.confirm("Sign this certificate?", abort=True)
Confirm ==
    /\ \E answer \in BOOLEAN :
         /\ confirmed' = answer
         /\ IF confirm_or_abort(answer) = "ok"
            THEN Continue(<<Ev("Confirm", conn, answer)>>)
            ELSE Fail(confirm_or_abort(answer), <<Ev("Confirm", conn, answer)>>)
    /\ UNCHANGED <<cmd, inputs, connected, slots, sessionNo, locals, out_file,
                   copies, apart>>

\* Line 364
SignConfirm == cmd = "sign" /\ pc = "confirm" /\ Confirm

\* Line 463
RootSignConfirm == cmd = "root_sign" /\ pc = "confirm" /\ Confirm

\* Line 366
SignVerifyPin == cmd = "sign" /\ pc = "verify_pin" /\ VerifyPin

\* Line 465
RootSignVerifyPin == cmd = "root_sign" /\ pc = "verify_pin" /\ VerifyPin

\* Lines 367-373
SignSign == cmd = "sign" /\ pc = "sign" /\ SignOnDevice(FALSE)

\* Lines 466-472
RootSignSign == cmd = "root_sign" /\ pc = "sign" /\ SignOnDevice(FALSE)

\* A slip: the issued certificate also stored in the slot of the signing
\* device, as certificate_intermediate stores the one it issues.
WriteAndPutCertificate ==
    /\ out_file' = Append(out_file, signed_cert)
    /\ slotCert' = [slotCert EXCEPT ![conn] = signed_cert]
    /\ ContinueAndClose(<<Ev("PutCertificate", conn, TRUE),
                          Ev("Write", conn, TRUE)>>)
    /\ UNCHANGED <<cmd, inputs, connected, slotKey, sessionNo, locals,
                   confirmed, copies, apart>>

\* out_file.write(signed_cert.public_bytes(PEM)), the end of the `with` block.
Write ==
    /\ out_file' = Append(out_file, signed_cert)
    /\ ContinueAndClose(<<Ev("Write", conn, TRUE)>>)
    /\ UNCHANGED <<cmd, inputs, connected, slots, sessionNo, locals,
                   confirmed, copies, apart>>

\* Lines 374-378
SignWrite == cmd = "sign" /\ pc = "write" /\ Write

\* Lines 474-478
RootSignWrite == cmd = "root_sign" /\ pc = "write" /\ Write

(* --------------------------- specification ----------------------------- *)

Next ==
    \/ StartRoot \/ RootBuild \/ RootSelect \/ RootAuthenticate
    \/ RootPutCertificate \/ RootPutKey \/ RootCopyPrompt
    \/ StartIntermediate \/ IntermediateSelect1 \/ IntermediateAuthenticate1
    \/ IntermediateGenerateKey \/ IntermediateSelect2
    \/ IntermediateGetCertificate \/ IntermediateBuild
    \/ IntermediateVerifyPin \/ IntermediateSign \/ IntermediateSelect3
    \/ IntermediateAuthenticate3 \/ IntermediatePutCertificate
    \/ StartSign \/ SignVerifyCsr \/ SignSelect \/ SignGetCertificate
    \/ SignBuild \/ SignConfirm \/ SignVerifyPin \/ SignSign \/ SignWrite
    \/ StartRootSign \/ RootSignVerifyCsr \/ RootSignSelect
    \/ RootSignGetCertificate \/ RootSignBuild \/ RootSignConfirm
    \/ RootSignVerifyPin \/ RootSignSign \/ RootSignWrite

Spec == Init /\ [][Next]_vars


(* -------------------- the constraint parser alone ---------------------- *)

UpperAtom(c) ==
    CASE c = "d" -> "D" [] c = "n" -> "N" [] c = "s" -> "S"
      [] c = "i" -> "I" [] c = "p" -> "P" [] c = "e" -> "E"
      [] c = "m" -> "M" [] c = "a" -> "A" [] c = "l" -> "L"
      [] OTHER -> c

\* Every way of writing `word` in upper and lower case.
CaseVariants(word) ==
    {[i \in 1..Len(word) |-> IF i \in S THEN UpperAtom(word[i]) ELSE word[i]] :
        S \in SUBSET (1..Len(word))}

KnownPrefixes ==
    CaseVariants(<<"d", "n", "s">>) \cup CaseVariants(<<"i", "p">>) \cup
    CaseVariants(<<"e", "m", "a", "i", "l">>) \cup CaseVariants(<<"d", "n">>)

OtherPrefixes ==
    {<<>>, <<"f", "o", "o">>, <<"b", "o", "g", "u", "s">>,
     <<"d", "n", "s", "s">>, <<"d">>, <<" ", "i", "p">>}

ConstraintValues ==
    {<<>>, <<"example.com">>, <<"b", "a", "r">>, <<"a", ":", "b">>,
     <<"203.0.113.0", "/", "24">>, <<"203.0.113.5">>,
     <<"203.0.113.5", "/", "24">>, <<"203.0.113.0", "/", "33">>,
     <<":", ":", "1">>, <<":", ":", "1", "/", "128">>,
     <<"C=FR", ",", "O=Example Corp">>, <<"=bad">>, <<"C=FR", ",">>}

\* prefix:value for every prefix and value above, and the prefixes alone.
ConstraintStrings ==
    {p \o <<":">> \o v : p \in KnownPrefixes \cup OtherPrefixes,
                         v \in ConstraintValues}
    \cup KnownPrefixes \cup OtherPrefixes

ParseInit ==
    /\ Idle
    /\ pc = "parse"
    /\ slotCert = [d \in Dev |-> NoCert]
    /\ slotKey = [d \in Dev |-> NoKey]
    /\ option_values = NoValues
    /\ raised = None
    /\ cstr \in ConstraintStrings
    /\ cres = None
    /\ NotResetting

\* validate_constraint(value) on one option value.
ParseConstraint ==
    /\ pc = "parse"
    /\ pc' = "parsed"
    /\ cres' = validate_constraint(cstr)
    /\ UNCHANGED <<cmd, error, inputs, connected, slots, conn, sessionNo,
                   locals, confirmed, out_file, copies, trace,
                   option_values, raised, cstr, reset>>

ParseNext == ParseConstraint

SpecParse == ParseInit /\ [][ParseNext]_vars


(* --------------------------- yubikey reset ----------------------------- *)

\* range(5): the iterations of the wait loop.
RetryRange == 5

\* The serials of the devices plugged when the command starts, in the order
\* list_all_devices gives them.
DeviceListings ==
    {s \in UNION {[1..n -> Dev] : n \in 0..NumDevices} :
        \A i, j \in 1..Len(s) : i # j => s[i] # s[j]}

ResetInit ==
    /\ Idle
    /\ pc = "for_device"
    /\ slotCert = [d \in Dev |-> NoCert]
    /\ slotKey = [d \in Dev |-> NoKey]
    /\ option_values = NoValues
    /\ raised = None
    /\ cstr = <<>>
    /\ cres = None
    /\ all_devices \in DeviceListings
    /\ nb = 0
    /\ device = NoHandle
    /\ retry = 0
    /\ listings = <<>>

certificate_vars ==
    <<cmd, inputs, connected, slots, conn, sessionNo, locals, confirmed,
      out_file, copies, option_values, raised, cstr, cres>>

\* Line 172 and lines 213-214: the next listed device, or the end.
ResetNextDevice ==
    /\ pc = "for_device"
    /\ IF nb < Len(all_devices)
       THEN /\ nb' = nb + 1
            /\ device' = Handle(all_devices[nb + 1], 0)
            /\ pc' = "write_config"
            /\ UNCHANGED error
       ELSE /\ IF nb = 0
               THEN pc' = "failed" /\ error' = "NoDeviceFound"
               ELSE pc' = "done" /\ UNCHANGED error
            /\ UNCHANGED <<nb, device>>
    /\ UNCHANGED <<certificate_vars, trace, all_devices, retry, listings>>

\* Lines 178-187: only PIV is left enabled and the device reboots.
ResetWriteConfig ==
    /\ pc = "write_config"
    /\ pc' = "wait"
    /\ retry' = RetryRange
    /\ listings' = <<>>
    /\ trace' = Append(trace, Ev("WriteDeviceConfig", device.serial, TRUE))
    /\ UNCHANGED <<certificate_vars, error, all_devices, nb, device>>

\* A slip: `if retry > 0: continue` without the raise under it, so that the
\* loop runs out and the flow goes on with the handle it had.
ResetPollWithoutRaise ==
    /\ pc = "wait"
    /\ retry' = retry - 1
    /\ \E listing \in SUBSET Dev :
         /\ listings' = Append(listings, listing)
         /\ trace' = trace \o
               <<Ev("Sleep", 0, TRUE),
                 Ev("ListAllDevices", 0, device.serial \in listing)>>
         /\ IF device.serial \in listing
            THEN /\ device' = Handle(device.serial, Len(listings'))
                 /\ pc' = "reset_piv"
            ELSE /\ pc' = IF retry' > 0 THEN "wait" ELSE "reset_piv"
                 /\ UNCHANGED device
    /\ UNCHANGED <<certificate_vars, error, all_devices, nb>>

\* Lines 188-201, one iteration of `for retry in reversed(range(5))`: a
\* second of sleep, a listing, and the search of it for the serial.
ResetPoll ==
    /\ pc = "wait"
    /\ retry' = retry - 1
    /\ \E listing \in SUBSET Dev :
         /\ listings' = Append(listings, listing)
         /\ trace' = trace \o
               <<Ev("Sleep", 0, TRUE),
                 Ev("ListAllDevices", 0, device.serial \in listing)>>
         /\ IF device.serial \in listing
            THEN /\ device' = Handle(device.serial, Len(listings'))
                 /\ pc' = "reset_piv"
                 /\ UNCHANGED error
            ELSE IF retry' > 0
            THEN /\ pc' = "wait"
                 /\ UNCHANGED <<device, error>>
            ELSE /\ pc' = "failed"
                 /\ error' = "DeviceNotFound"
                 /\ UNCHANGED device
    /\ UNCHANGED <<certificate_vars, all_devices, nb>>

\* Lines 202-212: the PIV application reset and the new credentials set,
\* through the handle in `device`.
ResetPiv ==
    /\ pc = "reset_piv"
    /\ pc' = "for_device"
    /\ trace' = Append(trace, [step |-> "ResetPiv", dev |-> device.serial,
                               session |-> device.listing, ok |-> TRUE])
    /\ UNCHANGED <<certificate_vars, error, reset>>

ResetNext ==
    ResetNextDevice \/ ResetWriteConfig \/ ResetPoll \/ ResetPiv

SpecReset == ResetInit /\ [][ResetNext]_vars


(* ------------------------------ claims --------------------------------- *)

CsrCommands == {"sign", "root_sign"}

Steps(name) == {i \in 1..Len(trace) : trace[i].step = name}

\* C1: in `certificate sign` and `certificate root sign`, a CSR whose
\* self-signature does not verify under its public key makes the command
\* abort: the device never signs and nothing is written to the output.
C1_InvalidCsrNeverSigned ==
    (cmd \in CsrCommands /\ pc # "failed" /\ pc # "verify_csr"
        => csr.signature_valid)
    /\ (cmd \in CsrCommands /\ ~csr.signature_valid
        => /\ Steps("Sign") = {}
           /\ signed_cert = NoCert
           /\ out_file = <<>>)

C1_Witness ==
    /\ cmd = "root_sign"
    /\ csr.key_type = "rsa"
    /\ csr.signature_hash_algorithm = "sha256"
    /\ ~csr.signature_valid
    /\ pc = "failed"
    /\ error = "CsrSignatureInvalid"

\* The certificate read from the device has the wrong role for the command.
WrongRole ==
    IF cmd = "sign"
    THEN Rfc4514String(readCert.issuer) = Rfc4514String(readCert.subject)
    ELSE Rfc4514String(readCert.issuer) # Rfc4514String(readCert.subject)

\* C2: when the certificate read from the selected device has issuer DN
\* string # subject DN string (intermediate issuance, `root sign`) or
\* issuer DN string = subject DN string (`sign`), the command fails with
\* UnexpectedDeviceRole and the device's sign operation is never invoked.
C2_RoleGuardBlocksSigning ==
    (readCert # NoCert /\ WrongRole)
        => /\ pc = "failed"
           /\ error = "UnexpectedDeviceRole"
           /\ Steps("Sign") = {}
           /\ Steps("VerifyPin") = {}
           /\ signed_cert = NoCert

C2_Witness ==
    /\ cmd = "sign"
    /\ readCert # NoCert
    /\ readCert.issuer = readCert.subject
    /\ error = "UnexpectedDeviceRole"
    /\ trace[Len(trace)] = [step |-> "VerifyRole", dev |-> readSession.dev,
                            session |-> readSession.session, ok |-> FALSE]

\* C3: yubikey_one gives a device if and only if exactly one device is
\* connected; none is NoDeviceFound, two or more is AmbiguousDevice, and then
\* no connection is opened, nothing more is done and nothing is retried.
C3_SelectExactlyOne ==
    /\ conn # 0 => connected = {conn}
    /\ \A i \in Steps("SelectDevice") :
         /\ trace[i].ok => trace[i].dev # 0
         /\ ~trace[i].ok =>
              /\ i = Len(trace)
              /\ pc = "failed"
              /\ conn = 0
              /\ Cardinality(connected) # 1
              /\ error = IF connected = {} THEN "NoDeviceFound"
                         ELSE "AmbiguousDevice"
    /\ sessionNo = Cardinality({i \in Steps("SelectDevice") : trace[i].ok})
    /\ (Len(trace) > 0 /\ trace[Len(trace)].step = "SelectDevice"
        /\ Cardinality(connected) = 1)
            => trace[Len(trace)].ok /\ conn \in connected

C3_Witness ==
    /\ error = "AmbiguousDevice"
    /\ Cardinality(connected) = 2
    /\ cmd = "intermediate"
    /\ Steps("GenerateKey") # {}

\* C4: in both CSR-signing commands the device signs only after the operator
\* answered yes to the prompt; on a no the command aborts: no PIN is
\* presented, nothing is signed and nothing is written.
C4_SignOnlyAfterConfirmation ==
    cmd \in CsrCommands =>
        /\ \A i \in Steps("Sign") :
             \E j \in Steps("Confirm") : j < i /\ trace[j].ok
        /\ \A j \in Steps("Confirm") :
             ~trace[j].ok =>
                /\ pc = "failed"
                /\ Steps("VerifyPin") = {}
                /\ Steps("Sign") = {}
                /\ out_file = <<>>

C4_Witness ==
    /\ cmd = "sign"
    /\ pc = "failed"
    /\ error = "Aborted"
    /\ ~confirmed
    /\ builder # NoCert
    /\ Steps("Confirm") # {}


\* The positions of issuer whose attribute type does not occur in requested.
Inherited(issuer, requested) ==
    {i \in 1..Len(issuer) :
        \A j \in 1..Len(requested) : requested[j].oid # issuer[i].oid}

\* merged is the inherited attributes of issuer, in issuer order, followed
\* by requested.
IsMergeOf(merged, issuer, requested) ==
    LET keep == Inherited(issuer, requested)
        n    == Cardinality(keep)
    IN  /\ Len(merged) = n + Len(requested)
        /\ \A i \in keep :
             merged[Cardinality({k \in keep : k <= i})] = issuer[i]
        /\ \A j \in 1..Len(requested) : merged[n + j] = requested[j]

\* The command merges the requested subject into the signer's subject.
MergeCase ==
    /\ builder # NoCert
    /\ cmd = "intermediate" \/ (cmd = "sign" /\ ~Falsy(subject_name))
    /\ FromRfc4514String(subject_name.text) # <<>>

\* C5: for an issuer DN and a non-empty requested DN, as attribute
\* sequences, the merged subject is the issuer attributes whose type does
\* not occur in requested, in issuer order, followed by all of requested in
\* its order; intermediate subjects and leaf subjects given an override are
\* merged the same way.
C5_MergedSubject ==
    MergeCase =>
        /\ IsMergeOf(builder.subject, readCert.subject,
                     FromRfc4514String(subject_name.text))
        /\ builder.issuer = readCert.subject

C5_Witness ==
    /\ cmd = "intermediate"
    /\ builder # NoCert
    /\ readCert.subject = <<Attr("C", "FR"), Attr("O", "Example Corp"),
                            Attr("CN", "Root CA")>>
    /\ subject_name.text = <<"CN=Leaf">>
    /\ builder.subject = <<Attr("C", "FR"), Attr("O", "Example Corp"),
                           Attr("CN", "Leaf")>>

\* C6: a certificate built as a root always has issuer DN string = subject
\* DN string, and a certificate built as an intermediate never has, whatever
\* the root subject and the requested intermediate subject name.
C6_BuiltRoleMatchesGuard ==
    /\ (cmd = "root" /\ builder # NoCert) =>
            Rfc4514String(builder.issuer) = Rfc4514String(builder.subject)
    /\ (cmd = "intermediate" /\ builder # NoCert) =>
            Rfc4514String(builder.issuer) # Rfc4514String(builder.subject)

\* C7: a certificate signed through a device has as issuer the subject of
\* the certificate read from that device's signature slot in the same
\* connection, and it is that device, in that connection, that signs.
C7_ChainOfTrust ==
    /\ (cmd \in {"intermediate", "sign", "root_sign"} /\ signed_cert # NoCert)
        => /\ signed_cert.issuer = readCert.subject
           /\ signed_cert.signed_by = slotKey[readSession.dev]
           /\ \A i \in Steps("Sign") :
                /\ trace[i].dev = readSession.dev
                /\ trace[i].session = readSession.session
           /\ \E g \in Steps("GetCertificate") :
                /\ trace[g].dev = readSession.dev
                /\ trace[g].session = readSession.session
    /\ (conn # 0 /\ readSession.session = sessionNo)
        => readSession.dev = conn /\ readCert = slotCert[conn]

C7_Witness ==
    /\ cmd = "root_sign"
    /\ pc = "done"
    /\ Len(out_file) = 1
    /\ out_file[1].issuer = readCert.subject
    /\ out_file[1].subject = csr.subject
    /\ out_file[1].signed_by = DeviceKey(readSession.dev)


\* The IP values that denote a network, with the network each denotes: a
\* bare address is the network of that one address (/32 for IPv4, /128 for
\* IPv6), and host bits under the mask are cleared.
ExpectedNetworks ==
    {<<<<"203.0.113.5">>, <<"203.0.113.5">>, 32>>,
     <<<<":", ":", "1">>, <<":", ":", "1">>, 128>>,
     <<<<":", ":", "1", "/", "128">>, <<":", ":", "1">>, 128>>,
     <<<<"203.0.113.0", "/", "24">>, <<"203.0.113.0">>, 24>>,
     <<<<"203.0.113.5", "/", "24">>, <<"203.0.113.0">>, 24>>}

\* The DN values that are well formed, with the name each denotes (the
\* text lists the attributes last to first).
ExpectedNames ==
    {<<<<>>, <<>>>>,
     <<<<"C=FR", ",", "O=Example Corp">>,
       <<Attr("O", "Example Corp"), Attr("C", "FR")>>>>}

\* The positions of the ":" characters of the parsed string.
Colons == {i \in 1..Len(cstr) : cstr[i] = ":"}

FirstColon == CHOOSE i \in Colons : \A j \in Colons : i <= j

RootExampleBuilt ==
    /\ cmd = "root"
    /\ builder # NoCert
    /\ subject_name.text = <<"CN=Root CA">>
    /\ days = 7300
    /\ permitted = Some(<<[kind |-> "DNSName", value |-> <<"example.com">>]>>)
    /\ excluded = None

\* What the example's certificate carries apart from its key usage bits.
RootExampleShape ==
    /\ builder.subject = <<Attr("CN", "Root CA")>>
    /\ builder.issuer = builder.subject
    /\ builder.serial_number = 1
    /\ builder.not_valid_after.day = builder.not_valid_before.day + 7300
    /\ Len(builder.extensions) = 3
    /\ builder.extensions[1] =
          [oid |-> "basicConstraints", critical |-> TRUE,
           value |-> [ca |-> TRUE, path_length |-> None]]
    /\ builder.extensions[2].oid = "keyUsage"
    /\ builder.extensions[2].critical
    /\ builder.extensions[2].value.key_cert_sign
    /\ builder.extensions[2].value.crl_sign
    /\ builder.extensions[3] =
          [oid |-> "nameConstraints", critical |-> TRUE,
           value |-> [permitted_subtrees |->
                          Some(<<[kind |-> "DNSName",
                                  value |-> <<"example.com">>]>>),
                      excluded_subtrees |-> None]]

OtherUsageBits ==
    {"content_commitment", "key_encipherment", "data_encipherment",
     "key_agreement", "encipher_only", "decipher_only"}

\* C9 as stated: the example root certificate carries a critical
\* BasicConstraints with CA true and no path length, a critical KeyUsage
\* with keyCertSign and cRLSign set and every other bit false, a critical
\* NameConstraints with the one permitted DNS subtree example.com and no
\* excluded subtrees, serial number 1 and no other extension.
C9_OnlySigningBits ==
    RootExampleBuilt =>
        /\ RootExampleShape
        /\ ~builder.extensions[2].value.digital_signature
        /\ \A b \in OtherUsageBits : ~builder.extensions[2].value[b]

\* C9: the example root certificate carries a critical BasicConstraints
\* with CA true and no path length, a critical KeyUsage with
\* digitalSignature, keyCertSign and cRLSign set and every other bit false,
\* a critical NameConstraints with the one permitted DNS subtree
\* example.com and no excluded subtrees, serial number 1 and no other
\* extension.
C9_RootCertificateShape ==
    RootExampleBuilt =>
        /\ RootExampleShape
        /\ builder.extensions[2].value.digital_signature
        /\ \A b \in OtherUsageBits : ~builder.extensions[2].value[b]

C9_Witness ==
    /\ RootExampleBuilt
    /\ pc = "done"
    /\ signed_cert.extensions = builder.extensions
    /\ signed_cert.serial_number = 1
    /\ \E d \in Dev : slotCert[d] = signed_cert


\* The place of a step in the order the specification gives; 0 for a step
\* it does not name.
ClaimedRank(step) ==
    CASE step = "SelectDevice" -> 1
      [] step \in {"Authenticate", "VerifyPin"} -> 2
      [] step = "VerifyRole" -> 3
      [] step = "VerifyCsr" -> 4
      [] step = "BuildCertificate" -> 5
      [] step \in {"Sign", "SignOnHost"} -> 6
      [] step \in {"PutCertificate", "PutKey", "Write"} -> 7
      [] OTHER -> 0

\* The place of a step within one connection, as the commands are written.
CodeRank(step) ==
    CASE step = "VerifyCsr" -> 1
      [] step = "SelectDevice" -> 2
      [] step \in {"Authenticate", "GetCertificate"} -> 3
      [] step \in {"GenerateKey", "VerifyRole"} -> 4
      [] step = "BuildCertificate" -> 5
      [] step \in {"SignOnHost", "Confirm"} -> 6
      [] step = "VerifyPin" -> 7
      [] step = "Sign" -> 8
      [] step \in {"PutCertificate", "Write"} -> 9
      [] step = "PutKey" -> 10

Before(i, j) == i < j /\ trace[i].session = trace[j].session

\* C10 as stated: the steps of a connection occur in the order SelectDevice,
\* Authenticate, VerifyRole, VerifyCsr, BuildCertificate, Sign, Persist; on
\* the signing device the PIN is verified before the role is checked, and
\* the CSR is verified after a device is selected and before the
\* certificate is built.
C10_ClaimedOrder ==
    /\ \A i, j \in 1..Len(trace) :
         (Before(i, j) /\ ClaimedRank(trace[i].step) # 0
                       /\ ClaimedRank(trace[j].step) # 0)
            => ClaimedRank(trace[i].step) <= ClaimedRank(trace[j].step)
    /\ \A r \in Steps("VerifyRole") :
         \E a \in Steps("VerifyPin") : Before(a, r)
    /\ \A v \in Steps("VerifyCsr") :
         /\ \E d \in Steps("SelectDevice") : d < v
         /\ \A b \in Steps("BuildCertificate") : v < b

\* C10: a CSR is verified first, before any device is selected; the
\* connections of a command follow one another; within a connection the
\* steps occur in the order SelectDevice, then Authenticate with the
\* management key and the key or certificate writes, or the read of the
\* signer's certificate, VerifyRole, BuildCertificate, the confirmation,
\* the PIN, Sign and the write of the output; the root command builds and
\* signs before it selects a device.  On the signing device the role is
\* checked before the PIN is verified.
C10_CodeOrder ==
    /\ \A i, j \in 1..Len(trace) :
         i < j => trace[i].session <= trace[j].session
    /\ \A i, j \in 1..Len(trace) :
         Before(i, j) => CodeRank(trace[i].step) < CodeRank(trace[j].step)
    /\ \A v \in Steps("VerifyCsr") : v = 1
    /\ \A h \in Steps("SignOnHost") : \A d \in Steps("SelectDevice") : h < d
    /\ \A a \in Steps("VerifyPin") :
         \E r \in Steps("VerifyRole") : Before(r, a) /\ trace[r].ok
    /\ \A g \in Steps("Sign") :
         \E a \in Steps("VerifyPin") : Before(a, g) /\ trace[a].ok

C10_Witness ==
    /\ cmd = "sign"
    /\ pc = "done"
    /\ [i \in 1..Len(trace) |-> trace[i].step] =
          <<"VerifyCsr", "SelectDevice", "GetCertificate", "VerifyRole",
            "BuildCertificate", "Confirm", "VerifyPin", "Sign", "Write">>

\* The positions where a command is about to select a device, and those
\* where it is not running.
SelectPositions == {"select", "select1", "select2", "select3"}

RestPositions == {"idle", "failed", "done", "copy_prompt"}

\* The steps of trace, and the numbers of their connections, in order.
StepNames == [i \in 1..Len(trace) |-> trace[i].step]

StepSessions == [i \in 1..Len(trace) |-> trace[i].session]

\* C11: no connection is open when a device is about to be selected or when
\* the command has ended, by an error too; while a connection is open it is
\* the last one opened and the steps since it opened are its own; a
\* completed `certificate intermediate` has opened exactly three
\* connections: authenticate with the management key and generate the key,
\* then read the certificate, test it as a root, verify the PIN and sign,
\* then authenticate with the management key and put the certificate.
C11_SessionsScoped ==
    /\ pc \in SelectPositions \cup RestPositions => conn = 0
    /\ conn # 0 =>
         \E s \in Steps("SelectDevice") :
            /\ trace[s].ok
            /\ trace[s].dev = conn
            /\ trace[s].session = sessionNo
            /\ \A i \in (s + 1)..Len(trace) :
                 trace[i].session = sessionNo /\ trace[i].dev = conn
    /\ (cmd = "intermediate" /\ pc = "done") =>
         /\ sessionNo = 3
         /\ StepNames =
              <<"SelectDevice", "Authenticate", "GenerateKey",
                "SelectDevice", "GetCertificate", "VerifyRole",
                "BuildCertificate", "VerifyPin", "Sign",
                "SelectDevice", "Authenticate", "PutCertificate">>
         /\ StepSessions = <<1, 1, 1, 2, 2, 2, 2, 2, 2, 3, 3, 3>>
         /\ \A i \in 1..Len(trace) : trace[i].ok
         /\ \A i, j \in 1..Len(trace) :
              trace[i].session = trace[j].session =>
                 trace[i].dev = trace[j].dev
         /\ SelfIssued(readCert) /\ readSession.session = 2

C11_Witness ==
    /\ cmd = "intermediate"
    /\ pc = "done"
    /\ sessionNo = 3
    /\ conn = 0
    /\ trace[1].dev = trace[10].dev
    /\ trace[4].dev # trace[1].dev
    /\ slotCert[trace[10].dev] = signed_cert
    /\ slotKey[trace[1].dev] = GeneratedKey(trace[1].dev)

\* The commands that sign through a device.
DeviceSigningCommands == {"intermediate", "sign", "root_sign"}

\* The signed certificate was signed inside a device, by the key of its slot.
SignedInDevice ==
    \E g \in Steps("Sign") :
        /\ trace[g].ok
        /\ signed_cert.signed_by = slotKey[trace[g].dev]
        /\ signed_cert.signed_by[1] \in {"device", "generated"}

\* C12 as stated: in no command does the command hold a private key, and
\* every signature is made inside a device.
C12_NeverHoldsKey ==
    /\ private_key = NoKey
    /\ Steps("SignOnHost") = {}
    /\ signed_cert # NoCert => SignedInDevice

\* C12: in `certificate intermediate`, `certificate sign` and `certificate
\* root sign` the command never holds a private key and the signature is
\* made inside the device, by the key of its signature slot; `certificate
\* root` generates the root key on the host, signs the root certificate
\* with it on the host and imports that key into every device it writes.
C12_KeyHandling ==
    /\ cmd \in DeviceSigningCommands =>
         /\ private_key = NoKey
         /\ Steps("SignOnHost") = {} /\ Steps("PutKey") = {}
         /\ signed_cert # NoCert => SignedInDevice
    /\ cmd = "root" =>
         /\ Steps("Sign") = {}
         /\ signed_cert # NoCert =>
              /\ private_key = HostKey
              /\ signed_cert.signed_by = HostKey
              /\ Steps("SignOnHost") # {}
         /\ \A p \in Steps("PutKey") : slotKey[trace[p].dev] = HostKey

C12_Witness ==
    /\ cmd = "root"
    /\ pc = "done"
    /\ private_key = HostKey
    /\ \E d \in Dev : slotKey[d] = HostKey /\ slotCert[d].signed_by = HostKey

\* The steps that present a credential to a device.
CredentialSteps == {"Authenticate", "VerifyPin"}

\* A step that failed is the last step of the command, the command has
\* ended with an error kind and its connection is closed; no credential is
\* presented twice in one connection.
FailureEndsCommand ==
    /\ \A i \in 1..Len(trace) :
         ~trace[i].ok => i = Len(trace) /\ pc = "failed"
    /\ pc = "failed" <=> error # ""
    /\ pc = "failed" => conn = 0
    /\ \A i, j \in 1..Len(trace) :
         (i < j /\ trace[i].step \in CredentialSteps
                /\ trace[i].step = trace[j].step)
            => trace[i].session # trace[j].session

\* C13: every error ends the command: the failed step is the last step, so
\* no credential is presented again, nothing is retried and no device
\* operation follows; once the command has failed nothing changes any
\* more; within one connection authenticate and verify_pin are each called
\* at most once.
C13_ErrorsTerminal ==
    /\ []FailureEndsCommand
    /\ [][pc = "failed" => UNCHANGED vars]_vars

C13_Witness ==
    /\ cmd = "sign"
    /\ pc = "failed"
    /\ error = "AuthError"
    /\ pin # DevicePin
    /\ trace[Len(trace)] =
          [step |-> "VerifyPin", dev |-> readSession.dev, session |-> 1,
           ok |-> FALSE]
    /\ signed_cert = NoCert
    /\ out_file = <<>>

\* The last two steps of the command wrote the certificate and the key to
\* the device of the connection just closed.
JustPersisted ==
    /\ Len(trace) >= 2
    /\ trace[Len(trace) - 1].step = "PutCertificate"
    /\ trace[Len(trace)].step = "PutKey"
    /\ trace[Len(trace) - 1].ok /\ trace[Len(trace)].ok
    /\ trace[Len(trace)].session = sessionNo
    /\ slotCert[trace[Len(trace)].dev] = signed_cert
    /\ slotKey[trace[Len(trace)].dev] = private_key

\* Everything but the position and the count of "yes" answers.
AllButPrompt ==
    <<cmd, error, inputs, connected, slots, conn, sessionNo, locals,
      confirmed, out_file, trace, apart>>

\* C14 as stated: the copy question comes only after a persist; a "yes"
\* repeats the whole flow, the build and the signature included, against
\* another physical device; a "no" ends the command.
C14_WholeFlowOnAnotherDevice ==
    cmd = "root" =>
        /\ pc = "copy_prompt" => JustPersisted
        /\ \A i, j \in Steps("PutKey") :
             i # j => trace[i].dev # trace[j].dev
        /\ pc = "done" =>
             Cardinality(Steps("BuildCertificate")) = copies + 1

\* C14: in `certificate root` the copy question comes only after
\* put_certificate and put_key have succeeded; a "yes" selects a device
\* again, authenticates and writes the same certificate and the same key,
\* nothing being built or signed again and the device being whichever one is
\* then connected; a "no" ends the command at once, changing nothing else.
C14_CopyLoop ==
    /\ [](cmd = "root" =>
            /\ pc = "copy_prompt" => JustPersisted /\ conn = 0
            /\ Cardinality(Steps("BuildCertificate")) <= 1
            /\ Cardinality(Steps("SignOnHost")) <= 1
            /\ \A p \in Steps("PutKey") :
                 /\ slotCert[trace[p].dev] = signed_cert
                 /\ slotKey[trace[p].dev] = private_key
            /\ Cardinality(Steps("PutKey")) <= copies + 1
            /\ pc = "done" =>
                 JustPersisted /\ Cardinality(Steps("PutKey")) = copies + 1)
    /\ [][pc = "copy_prompt" =>
            /\ UNCHANGED AllButPrompt
            /\ \/ pc' = "done" /\ copies' = copies
               \/ pc' = "select" /\ copies' = copies + 1]_vars
    /\ [][pc = "done" => UNCHANGED vars]_vars

C14_Witness ==
    /\ cmd = "root"
    /\ pc = "done"
    /\ copies = 1
    /\ \E i, j \in Steps("PutKey") :
         /\ trace[i].dev # trace[j].dev
         /\ slotCert[trace[i].dev] = slotCert[trace[j].dev]
         /\ slotKey[trace[i].dev] = HostKey
         /\ slotKey[trace[j].dev] = HostKey

\* C15: once the CSR has been checked, an RSA key with no declared hash
\* algorithm has given MissingHashAlgorithm, an EC key with no declared hash
\* algorithm has given MissingHashAlgorithm, a key that is neither RSA nor
\* EC has given UnsupportedKeyAlgorithm, and in each of these cases the
\* command has stopped there.
C15_CsrErrorKinds ==
    (cmd \in CsrCommands /\ Steps("VerifyCsr") # {}) =>
        /\ (csr.key_type \in {"rsa", "ec"}
            /\ csr.signature_hash_algorithm = "none")
              => error = "MissingHashAlgorithm"
        /\ csr.key_type \notin {"rsa", "ec"}
              => error = "UnsupportedKeyAlgorithm"
        /\ (csr.key_type \notin {"rsa", "ec"}
            \/ csr.signature_hash_algorithm = "none")
              => pc = "failed" /\ Len(trace) = 1

\* The labels yubikey_one is called with.
Labels == {"Root X", "Intermediate"}

\* The role a device has by the certificate in its signature slot.
DeviceRole(d) ==
    IF slotCert[d] = NoCert THEN "none"
    ELSE IF SelfIssued(slotCert[d]) THEN "Root X" ELSE "Intermediate"

\* The connected devices that do not have the role other than `label`.
Matching(label) ==
    {d \in connected : DeviceRole(d) \in {"none", label}}

\* The last step of the command is a device selection.
JustSelected ==
    Len(trace) > 0 /\ trace[Len(trace)].step = "SelectDevice"

\* C16 as stated: only the connected devices matching the requested label
\* are considered: the one returned is not of the other role, and none /
\* more than one is decided on the matching devices alone.
C16_OnlyMatchingDevices ==
    JustSelected =>
        LET e == trace[Len(trace)]
        IN  /\ e.ok <=> Cardinality(Matching(e.yk)) = 1
            /\ e.ok => e.dev \in Matching(e.yk)
            /\ ~e.ok => error = IF Matching(e.yk) = {} THEN "NoDeviceFound"
                                ELSE "AmbiguousDevice"

\* C16: the label serves for the prompt only: every connected device is
\* considered, whatever it holds; the single connected device is returned
\* for either label, no device gives NoDeviceFound and two or more give
\* AmbiguousDevice, devices of the other role included.
C16_EveryDeviceCounts ==
    JustSelected =>
        LET e == trace[Len(trace)]
        IN  /\ e.yk \in Labels
            /\ e.ok <=> Cardinality(connected) = 1
            /\ e.ok => connected = {e.dev} /\ conn = e.dev
            /\ ~e.ok => error = IF connected = {} THEN "NoDeviceFound"
                                ELSE "AmbiguousDevice"

C16_Witness ==
    /\ JustSelected
    /\ cmd = "intermediate"
    /\ pc = "authenticate1"
    /\ trace[Len(trace)].ok
    /\ trace[Len(trace)].yk = "Intermediate"
    /\ DeviceRole(conn) = "Root X"

\* C17: every built certificate, of any command and for any day count of at
\* least one, has not-after equal to not-before plus that many days exactly,
\* not-before being the time read at the build, also when the clock moves
\* during the build; hence not-after is later than not-before.  With a day
\* count below one nothing is built.
C17_ValidityExact ==
    /\ builder # NoCert =>
         /\ days >= 1
         /\ builder.not_valid_after =
              [day  |-> builder.not_valid_before.day + days,
               tick |-> builder.not_valid_before.tick]
         /\ builder.not_valid_after.day > builder.not_valid_before.day
    /\ (cmd # "none" /\ days < 1) =>
         /\ pc = "failed"
         /\ builder = NoCert
         /\ trace = <<>>

\* cert carries the extensions of the CSR: as many, in the same order, each
\* with its type, value and criticality.
CarriesCsrExtensions(cert) ==
    /\ Len(cert.extensions) = Len(csr.extensions)
    /\ \A i \in 1..Len(csr.extensions) :
         /\ cert.extensions[i].oid = csr.extensions[i].oid
         /\ cert.extensions[i].critical = csr.extensions[i].critical
         /\ cert.extensions[i].value = csr.extensions[i].value

\* C18: a leaf certificate has exactly the extensions of the CSR, in order,
\* values and criticality kept; its subject is the subject of the CSR when
\* `certificate sign` is given no or an empty --subject-name and always in
\* `certificate root sign`, and is the merge against the signer's subject
\* only when `certificate sign` is given a non-empty --subject-name; what
\* is signed and written is the certificate so built.
C18_LeafFromCsr ==
    (cmd \in CsrCommands /\ builder # NoCert) =>
        /\ CarriesCsrExtensions(builder)
        /\ builder.public_key = csr.public_key
        /\ IF cmd = "sign" /\ ~Falsy(subject_name)
           THEN IsMergeOf(builder.subject, readCert.subject,
                          FromRfc4514String(subject_name.text))
           ELSE builder.subject = csr.subject
        /\ signed_cert # NoCert =>
             /\ CarriesCsrExtensions(signed_cert)
             /\ signed_cert.subject = builder.subject
        /\ pc = "done" => out_file = <<signed_cert>>

C18_Witness ==
    /\ cmd = "sign"
    /\ pc = "done"
    /\ subject_name = NotGiven
    /\ Len(csr.extensions) = 2
    /\ csr.extensions[2].critical /\ ~csr.extensions[1].critical
    /\ out_file[1].extensions = csr.extensions
    /\ out_file[1].subject = csr.subject
    /\ out_file[1].subject # MergeSubject(readCert.subject, csr.subject)

Sides == {"permitted", "excluded"}

\* The strings of the option lists that are not constraints.
NotConstraints == {<<"b", "o", "g", "u", "s">>, <<"f", "o", "o", ":", "bar">>}

\* The first string of list v that is not a constraint is at position i.
FirstFailure(v, i) ==
    /\ i \in 1..Len(v)
    /\ v[i] \in NotConstraints
    /\ \A j \in 1..(i - 1) : v[j] \notin NotConstraints

\* What validate_constraints returned for each option.
Parsed == [permitted |-> permitted, excluded |-> excluded]

\* The name-constraint extensions of the built certificate.
NameConstraintsOf(cert) ==
    {i \in 1..Len(cert.extensions) :
        cert.extensions[i].oid = "nameConstraints"}

\* C19: for no values the callback returns None, not an empty list; for
\* values that all parse it returns their constraints in order; otherwise
\* it raises the failure of the first string that does not parse and the
\* command stops before anything is built.  The root certificate has a
\* NameConstraints extension exactly when --permitted or --excluded was
\* given, and in it a side that was not given is None, not an empty list.
C19_BatchAndExtension ==
    cmd = "root" =>
        /\ error = "InvalidConstraint" <=>
             \E s \in Sides : \E i \in 1..Len(option_values[s]) :
                option_values[s][i] \in NotConstraints
        /\ error = "InvalidConstraint" =>
             /\ \E s \in Sides : \E i \in 1..Len(option_values[s]) :
                  /\ FirstFailure(option_values[s], i)
                  /\ raised = validate_constraint(option_values[s][i])
             /\ raised.kind = "BadParameter"
             /\ builder = NoCert /\ trace = <<>> /\ pc = "failed"
        /\ error \notin {"InvalidConstraint", "BadParameter"} =>
             \A s \in Sides :
                IF option_values[s] = <<>> THEN Parsed[s] = None
                ELSE /\ Parsed[s].kind = "list"
                     /\ Len(Parsed[s].list) = Len(option_values[s])
                     /\ \A i \in 1..Len(option_values[s]) :
                          Parsed[s].list[i] =
                             validate_constraint(option_values[s][i])
        /\ builder # NoCert =>
             /\ NameConstraintsOf(builder) # {} <=>
                  \E s \in Sides : option_values[s] # <<>>
             /\ \A n \in NameConstraintsOf(builder) :
                  /\ n = 3 /\ builder.extensions[n].critical
                  /\ builder.extensions[n].value =
                       [permitted_subtrees |-> Parsed["permitted"],
                        excluded_subtrees  |-> Parsed["excluded"]]
                  /\ \A s \in Sides :
                       Parsed[s] = None \/ Parsed[s].list # <<>>

C19_Witness ==
    /\ cmd = "root"
    /\ pc = "done"
    /\ option_values = [permitted |-> <<>>,
                        excluded |-> <<<<"i", "p", ":", "203.0.113.0",
                                         "/", "24">>>>]
    /\ permitted = None
    /\ \E d \in Dev :
         /\ slotCert[d] = signed_cert
         /\ slotCert[d].extensions[3].value =
               [permitted_subtrees |-> None,
                excluded_subtrees |->
                    Some(<<[kind |-> "IPAddress",
                            address |-> <<"203.0.113.0">>,
                            prefixlen |-> 24]>>)]

\* The serial of the device being reset.
ResetSerial == all_devices[nb]

\* The listings of the current wait that showed the serial.
Showing == {i \in 1..Len(listings) : ResetSerial \in listings[i]}

\* What holds of the wait for a device to come back.
PollState ==
    /\ Len(listings) <= 5
    /\ Cardinality(Steps("Sleep")) = Cardinality(Steps("ListAllDevices"))
    /\ \A i \in Steps("ListAllDevices") : i > 1 /\ trace[i - 1].step = "Sleep"
    /\ pc = "wait" => Len(listings) < 5 /\ Showing = {}
    /\ pc = "reset_piv" =>
         /\ Showing = {Len(listings)}
         /\ device = [serial |-> ResetSerial, listing |-> Len(listings)]
    /\ error = "DeviceNotFound" <=>
         (pc = "failed" /\ nb > 0 /\ Len(listings) = 5 /\ Showing = {})
    /\ \A r \in Steps("ResetPiv") :
         trace[r - 1].step = "ListAllDevices" /\ trace[r - 1].ok

\* C20: after the configuration is written the devices are listed at most
\* 5 times, each listing after a second of sleep; the wait ends at the
\* first listing that shows the serial of the device being reset, and the
\* PIV reset then goes through the handle this listing gave; when none of
\* the 5 listings shows the serial the command fails with DeviceNotFound;
\* every iteration of the wait is one more listing, so the wait ends.
C20_BoundedPoll ==
    /\ []PollState
    /\ [][pc = "wait" =>
            /\ Len(listings') = Len(listings) + 1
            /\ retry' = retry - 1 /\ retry' >= 0]_vars

C20_Witness ==
    /\ pc = "reset_piv"
    /\ nb = 2
    /\ Len(listings) = 5
    /\ device.listing = 5
    /\ Cardinality(Steps("Sleep")) = 6

\* C21: in `certificate intermediate` the key is generated in the slot of
\* the first device before any later connection is opened, so before the
\* root device is selected, read or tested; a run that fails after that, in
\* the second or the third connection, ends with that device holding the
\* freshly generated key, its stored certificate, if any, not being one for
\* that key, and nothing is undone.
C21_NoRollback ==
    cmd = "intermediate" =>
        \A g \in Steps("GenerateKey") :
            /\ trace[g].session = 1
            /\ \A i \in 1..Len(trace) : trace[i].session >= 2 => g < i
            /\ \A i \in Steps("GetCertificate") \cup Steps("VerifyRole") :
                 g < i
            /\ slotKey[trace[g].dev] = GeneratedKey(trace[g].dev)
            /\ public_key = GeneratedKey(trace[g].dev)
            /\ pc = "failed" =>
                 /\ sessionNo \in {1, 2, 3}
                 /\ \/ slotCert[trace[g].dev] = NoCert
                    \/ slotCert[trace[g].dev].public_key
                          # slotKey[trace[g].dev]

C21_Witness ==
    /\ cmd = "intermediate"
    /\ pc = "failed"
    /\ error = "UnexpectedDeviceRole"
    /\ \E g \in Steps("GenerateKey") :
         /\ slotCert[trace[g].dev] # NoCert
         /\ ~SelfIssued(slotCert[trace[g].dev])
         /\ slotCert[trace[g].dev].public_key = DeviceKey(trace[g].dev)
         /\ slotKey[trace[g].dev] = GeneratedKey(trace[g].dev)

\* Step i comes before step j in the same connection, on the same device.
BeforeOnDevice(i, j) == Before(i, j) /\ trace[i].dev = trace[j].dev

\* C22: in the three commands that sign through a device, verify_pin is
\* called only after the role test passed in the same connection, and in
\* the two CSR-signing commands only after the operator confirmed; a device
\* of the wrong role or a declined confirmation therefore uses no PIN
\* attempt; the device signs only after verify_pin succeeded in the same
\* connection.
C22_PinAfterGuards ==
    cmd \in DeviceSigningCommands =>
        /\ \A p \in Steps("VerifyPin") :
             /\ \E r \in Steps("VerifyRole") :
                  BeforeOnDevice(r, p) /\ trace[r].ok
             /\ cmd \in CsrCommands =>
                  \E c \in Steps("Confirm") :
                     BeforeOnDevice(c, p) /\ trace[c].ok /\ confirmed
        /\ error \in {"UnexpectedDeviceRole", "Aborted"} =>
             Steps("VerifyPin") = {}
        /\ \A s \in Steps("Sign") :
             \E p \in Steps("VerifyPin") :
                BeforeOnDevice(p, s) /\ trace[p].ok /\ pin = DevicePin

C22_Witness ==
    /\ cmd = "root_sign"
    /\ pc = "failed"
    /\ error = "Aborted"
    /\ pin # DevicePin
    /\ \E r \in Steps("VerifyRole") : trace[r].ok
    /\ Steps("VerifyPin") = {}
    /\ Steps("Sign") = {}

\* The devices `certificate root` has written completely.
Persisted == {trace[p].dev : p \in Steps("PutKey")}

\* C23: `certificate root` makes the key pair and builds and signs the
\* certificate once, before the first device is selected; every device it
\* has written, whatever the number of copies, holds one and the same
\* certificate and one and the same private key, and the certificate on
\* each is for the public key of the key beside it.
C23_OneRootForAllCopies ==
    cmd = "root" =>
        /\ Cardinality(Steps("BuildCertificate")) <= 1
        /\ Cardinality(Steps("SignOnHost")) <= 1
        /\ \A s \in Steps("SelectDevice") :
             \E b \in Steps("BuildCertificate"), h \in Steps("SignOnHost") :
                b < h /\ h < s
        /\ \A d, e \in Persisted :
             slotCert[d] = slotCert[e] /\ slotKey[d] = slotKey[e]
        /\ \A d \in Persisted :
             /\ slotCert[d] # NoCert /\ slotKey[d] # NoKey
             /\ slotCert[d].public_key = slotKey[d]
             /\ slotCert[d].signed_by = slotKey[d]
             /\ slotCert[d] = signed_cert
        /\ Cardinality(Steps("PutKey")) <= copies + 1

C23_Witness ==
    /\ cmd = "root"
    /\ pc = "copy_prompt"
    /\ copies = 1
    /\ Cardinality(Persisted) = 2
    /\ Cardinality(Steps("BuildCertificate")) = 1
    /\ \A d \in Persisted : slotCert[d].public_key = HostKey

\* The error kinds of a rejected CSR.
CsrRejections ==
    {"CsrSignatureInvalid", "MissingHashAlgorithm", "UnsupportedKeyAlgorithm"}

\* The steps that change what a device holds.
MutatingSteps == {"GenerateKey", "PutKey", "PutCertificate"}

\* Nothing but the CSR check has happened, and no device was listed or
\* opened.
OnlyCsrChecked ==
    /\ Len(trace) = 1 /\ trace[1].step = "VerifyCsr" /\ ~trace[1].ok
    /\ sessionNo = 0 /\ conn = 0 /\ connected = {}
    /\ readCert = NoCert /\ builder = NoCert /\ ~confirmed

\* C24: in `certificate sign` and `certificate root sign` the CSR check is
\* the first step and has passed before any device is listed or opened;
\* when the CSR is rejected no device is selected, no connection is opened
\* and no confirmation is asked; and neither command ever generates a key,
\* puts a key or puts a certificate: what the devices hold does not change.
C24_CsrFirstAndNoMutation ==
    /\ [](cmd \in CsrCommands =>
            /\ \A i \in 1..Len(trace) :
                 IF i = 1 THEN trace[i].step = "VerifyCsr"
                 ELSE trace[1].ok /\ trace[i].step # "VerifyCsr"
            /\ (sessionNo > 0 \/ connected # {}) =>
                 Len(trace) > 1 /\ trace[1].ok
            /\ error \in CsrRejections <=>
                 (Len(trace) = 1 /\ ~trace[1].ok)
            /\ error \in CsrRejections => OnlyCsrChecked
            /\ \A i \in 1..Len(trace) : trace[i].step \notin MutatingSteps)
    /\ [][cmd' \in CsrCommands => UNCHANGED <<slotCert, slotKey>>]_vars

C24_Witness ==
    /\ cmd = "sign"
    /\ pc = "failed"
    /\ error = "MissingHashAlgorithm"
    /\ csr.key_type = "ec"
    /\ OnlyCsrChecked
    /\ out_file = <<>>

====
